---- MODULE Spec2Model ----
(***************************************************************************)
(* Model of zero2prod: the subscriber domain types (SubscriberName,        *)
(* SubscriberEmail), the POST /subscriptions intake handler and the        *)
(* EmailClient.  A string is a sequence of code points, each written as a  *)
(* TLA+ string.                                                            *)
(***************************************************************************)
EXTENDS Integers, Sequences, FiniteSets, TLC

VARIABLES
    nameInput,      \* argument of SubscriberName::parse
    nameResult,     \* its Result, once namePc = "parsed"
    namePc,
    emailInput,     \* argument of SubscriberEmail::parse
    emailResult,    \* its Result, once emailPc = "parsed"
    emailPc,
    subscriptions,  \* rows of the subscriptions table, in insertion order
    before,         \* the rows as they were when the last request arrived
    lastBody,       \* form body of the last POST /subscriptions request
    lastStatus,     \* its response status, 0 before the first request
    handled,        \* requests answered so far
    okCount,        \* requests answered 200 so far
    config,         \* the arguments EmailClient::new was called with
    client,         \* the EmailClient shared by all send_email calls
    calls           \* the send_email calls, by call id

nameVars == <<nameInput, nameResult, namePc>>
emailVars == <<emailInput, emailResult, emailPc>>
intakeVars == <<subscriptions, before, lastBody, lastStatus, handled, okCount>>
clientVars == <<config, client, calls>>

vars == <<nameVars, emailVars, intakeVars, clientVars>>

----------------------------------------------------------------------------
(* Strings *)

\* str::repeat: s written n times
Repeat(s, n) == [i \in 1..(Len(s) * n) |-> s[((i - 1) % Len(s)) + 1]]

\* char::is_whitespace, on the code points of the model
IsWhitespace(c) == c \in {" ", "TAB"}

\* a code point with Grapheme_Extend: it joins the cluster of the code point before it
IsExtend(c) == c = "COMBINING_DIAERESIS"

IsPrintable(c) == c # "TAB"

\* str::trim: the string without its leading and trailing whitespace
Trim(s) ==
    LET keep == {i \in DOMAIN s : ~IsWhitespace(s[i])}
    IN  IF keep = {} THEN <<>>
        ELSE LET first == CHOOSE i \in keep : \A j \in keep : i <= j
                 last == CHOOSE i \in keep : \A j \in keep : j <= i
             IN  SubSeq(s, first, last)

\* UnicodeSegmentation::graphemes(true).count(): extended grapheme clusters;
\* a cluster starts at every code point that does not extend the previous one
GraphemeCount(s) ==
    Cardinality({i \in DOMAIN s : i = 1 \/ ~IsExtend(s[i])})

----------------------------------------------------------------------------
(* domain/subscriber_name.rs *)

NameMaxGraphemes == 256

forbidden_characters == {"/", "(", ")", "\"", "<", ">", "\\", "{", "}"}

is_empty_or_whitespace(name) == Trim(name) = <<>>

is_too_long_inclusive(name) == GraphemeCount(name) >= NameMaxGraphemes

is_too_long(name) == GraphemeCount(name) > NameMaxGraphemes

contains_forbidden_characters(name) ==
    \E i \in DOMAIN name : name[i] \in forbidden_characters

\* format!("{} is not a valid subscriber name", name)
NameError(name) == name \o <<" is not a valid subscriber name">>

NameKeptTrimmed(name) == Trim(name)

\* the value a successful parse wraps
NameKept(name) == name

SubscriberName_parse(name) ==
    IF is_empty_or_whitespace(name) \/ is_too_long(name)
          \/ contains_forbidden_characters(name)
    THEN [ok |-> FALSE, err |-> NameError(name)]
    ELSE [ok |-> TRUE, value |-> [inner |-> NameKept(name)]]

\* AsRef<str> for SubscriberName and SubscriberEmail
as_ref(v) == v.inner

----------------------------------------------------------------------------
(* domain/subscriber_email.rs *)

IsAlnum(c) == c \in {"a", "b", "u", "g", "c", "l", "e", "2", "0", "4", "F"}

\* the characters validate_email allows in the part before the last '@'
IsUserChar(c) == IsAlnum(c) \/ c \in {".", "-", "+", "/", "{", "}"}

\* a domain label: alphanumerics and inner hyphens
IsLabel(l) ==
    /\ l # <<>>
    /\ IsAlnum(l[1])
    /\ IsAlnum(l[Len(l)])
    /\ \A i \in DOMAIN l : IsAlnum(l[i]) \/ l[i] = "-"

\* the domain is a dot-separated list of labels
IsDomain(d) ==
    /\ d # <<>>
    /\ LET dots == {i \in DOMAIN d : d[i] = "."}
           cuts == {0} \cup dots \cup {Len(d) + 1}
       IN  \A i \in cuts : \A j \in cuts :
              (i < j /\ \A k \in cuts : ~(i < k /\ k < j))
                 => IsLabel(SubSeq(d, i + 1, j - 1))

\* validator::validate_email: split at the last '@', then match both parts
validate_email(email) ==
    LET ats == {i \in DOMAIN email : email[i] = "@"}
    IN  /\ email # <<>>
        /\ ats # {}
        /\ LET at == CHOOSE i \in ats : \A j \in ats : j <= i
               user_part == SubSeq(email, 1, at - 1)
               domain_part == SubSeq(email, at + 1, Len(email))
           IN  /\ user_part # <<>>
               /\ \A i \in DOMAIN user_part : IsUserChar(user_part[i])
               /\ IsDomain(domain_part)

\* format!("{} is not a valid email", &email)
EmailError(email) == email \o <<" is not a valid email">>

EmailAcceptedWithAt(email) == \E i \in DOMAIN email : email[i] = "@"

EmailAccepted(email) == validate_email(email)

SubscriberEmail_parse(email) ==
    IF EmailAccepted(email)
    THEN [ok |-> TRUE, value |-> [inner |-> email]]
    ELSE [ok |-> FALSE, err |-> EmailError(email)]

----------------------------------------------------------------------------
(* Inputs of the parsers *)

MaxParts == 2
MaxEmailLen == 5

Pending == [ok |-> FALSE, err |-> <<>>]

\* grapheme clusters a name is built from; the second is e + combining mark
NameGraphemes ==
    {<<"a">>, <<"e", "COMBINING_DIAERESIS">>, <<" ">>, <<"TAB">>}
       \cup {<<c>> : c \in forbidden_characters}

LongGraphemes == {<<"a">>, <<"e", "COMBINING_DIAERESIS">>, <<" ">>}

NameParts ==
    {Repeat(g, 1) : g \in NameGraphemes}
       \cup {Repeat(g, n) : g \in LongGraphemes,
                            n \in {NameMaxGraphemes - 1, NameMaxGraphemes}}

RECURSIVE Concat(_)
Concat(parts) ==
    IF parts = <<>> THEN <<>> ELSE Head(parts) \o Concat(Tail(parts))

NameInputs ==
    {Concat(ps) : ps \in UNION {[1..n -> NameParts] : n \in 0..MaxParts}}

EmailChars == {"a", "@", ".", "-", " "}

EmailInputs == UNION {[1..n -> EmailChars] : n \in 0..MaxEmailLen}

NameIdle ==
    /\ nameInput = <<>>
    /\ nameResult = Pending
    /\ namePc = "input"

EmailIdle ==
    /\ emailInput = <<>>
    /\ emailResult = Pending
    /\ emailPc = "input"

----------------------------------------------------------------------------
(* email_client.rs *)

MaxTimeout == 2

SERVER_TOKEN_HEADER_KEY == "X-Postmark-Server-Token"

\* reqwest::Url::parse: a URL without a path has the path "/"
UrlParse(text) ==
    [origin |-> text.origin,
     segments |-> IF text.path = <<>> THEN <<"">> ELSE text.path]

\* Url::join: a reference starting with '/' replaces the whole path, any
\* other reference replaces the last segment
UrlJoin(url, ref) ==
    [origin |-> url.origin,
     segments |-> IF ref.rooted THEN ref.segments
                  ELSE SubSeq(url.segments, 1, Len(url.segments) - 1)
                          \o ref.segments]

\* the reference "/email"
EmailPath == [rooted |-> TRUE, segments |-> <<"email">>]

Capitalize(word) ==
    CASE word = "from" -> "From"
      [] word = "to" -> "To"
      [] word = "subject" -> "Subject"
      [] word = "html" -> "Html"
      [] word = "text" -> "Text"
      [] word = "body" -> "Body"

\* #[serde(rename_all = "PascalCase")] on a snake_case field name
RECURSIVE PascalCase(_)
PascalCase(words) ==
    IF words = <<>> THEN ""
    ELSE Capitalize(Head(words)) \o PascalCase(Tail(words))

\* the JSON object serde writes for SendEmailRequest
SendEmailRequest(from, to, subject, html_body, text_body) ==
    { <<PascalCase(<<"from">>), from>>,
      <<PascalCase(<<"to">>), to>>,
      <<PascalCase(<<"subject">>), subject>>,
      <<PascalCase(<<"html", "body">>), html_body>>,
      <<PascalCase(<<"text", "body">>), text_body>> }

\* Secret::expose_secret
expose_secret(secret) == secret.inner

\* Client::new(): a transport without a timeout
EmailClient_new_without_timeout(base_url, sender, authorization_token, timeout) ==
    [http_client |-> [timeout |-> <<>>],
     base_url |-> base_url,
     sender |-> sender,
     authorization_token |-> authorization_token]

\* EmailClient::new: the transport is built once, with the timeout
EmailClient_new(base_url, sender, authorization_token, timeout) ==
    [http_client |-> [timeout |-> <<timeout>>],
     base_url |-> base_url,
     sender |-> sender,
     authorization_token |-> authorization_token]

\* the request send_email hands to the transport
BuildRequest(self, recipient, subject, html_content, text_content) ==
    [method |-> "POST",
     url |-> UrlJoin(UrlParse(self.base_url), EmailPath),
     headers |-> { <<SERVER_TOKEN_HEADER_KEY,
                     expose_secret(self.authorization_token)>>,
                   <<"Content-Type", "application/json">> },
     body |-> SendEmailRequest(as_ref(self.sender), as_ref(recipient),
                               subject, html_content, text_content)]

Ok == [kind |-> "Ok", cause |-> ""]

Err(cause) == [kind |-> "Err", cause |-> cause]

\* a variant that turns 4xx and 5xx answers into errors (error_for_status)
SendEmailResultByStatus(transport) ==
    IF transport.kind = "error" THEN Err(transport.cause)
    ELSE IF transport.status >= 400 THEN Err("status")
    ELSE Ok

\* .send().await? then Ok(()): the error of the transport, or Ok
SendEmailResult(transport) ==
    IF transport.kind = "error" THEN Err(transport.cause) ELSE Ok

ShouldRetryOnError(transport) == transport.kind = "error"

\* send_email has no loop: whatever the transport returns ends the call
ShouldRetry(transport) == FALSE

CallIds == {"c1", "c2"}

BaseUrls ==
    { [origin |-> "http://127.0.0.1:8025", path |-> <<>>],
      [origin |-> "https://api.postmarkapp.com", path |-> <<"">>],
      [origin |-> "https://mail.example.com", path |-> <<"v1">>] }

Sender == SubscriberEmail_parse(<<"a", "@", "b", ".", "c">>).value

Token == [inner |-> "server-token"]

Recipients ==
    { SubscriberEmail_parse(<<"u", "@", "g", ".", "c">>).value,
      SubscriberEmail_parse(<<"l", "@", "e", ".", "c">>).value }

Statuses == {200, 404, 500}

TransportFailures == {"dns", "connect", "tls", "read"}

NoTransport == [kind |-> "none", status |-> 0, cause |-> ""]

IdleCall ==
    [pc |-> "idle", requests |-> <<>>, elapsed |-> 0,
     transport |-> NoTransport, result |-> [kind |-> "pending", cause |-> ""],
     cancelled |-> FALSE]

Configs ==
    [base_url : BaseUrls, sender : {Sender}, authorization_token : {Token},
     timeout : 1..MaxTimeout]

Build(c) ==
    EmailClient_new(c.base_url, c.sender, c.authorization_token, c.timeout)

\* the client Application::build makes from the configuration
ClientIdle ==
    /\ config = [base_url |-> [origin |-> "https://api.postmarkapp.com",
                               path |-> <<>>],
                 sender |-> Sender, authorization_token |-> Token,
                 timeout |-> 1]
    /\ client = Build(config)
    /\ calls = [c \in CallIds |-> IdleCall]

Untouched == UNCHANGED <<nameVars, emailVars, intakeVars, config, client>>

\* send_email up to .send(): one request is handed to the transport
SendEmail(c, recipient, subject, html_content, text_content) ==
    /\ calls[c].pc = "idle"
    /\ calls' = [calls EXCEPT ![c] =
          [@ EXCEPT !.pc = "sent",
                    !.requests = <<BuildRequest(client, recipient, subject,
                                                html_content, text_content)>>]]
    /\ Untouched

\* the transport's clock; the cap only binds a transport without timeout
Waiting(c) ==
    /\ calls[c].pc = "sent"
    /\ \/ client.http_client.timeout = <<>>
       \/ calls[c].elapsed < client.http_client.timeout[1]

Tick(c) ==
    /\ Waiting(c)
    /\ calls[c].elapsed <= MaxTimeout
    /\ calls' = [calls EXCEPT ![c].elapsed = @ + 1]
    /\ Untouched

\* .send().await returned transport: the call ends, or sends again
Finish(c, transport, cancelled) ==
    calls' = [calls EXCEPT ![c] =
        IF ShouldRetry(transport)
        THEN [@ EXCEPT !.requests = Append(@, @[1]), !.elapsed = 0]
        ELSE [@ EXCEPT !.pc = "done",
                       !.transport = transport,
                       !.result = SendEmailResult(transport),
                       !.cancelled = cancelled]]

\* the provider answers before the timeout
Respond(c, status) ==
    /\ Waiting(c)
    /\ Finish(c, [kind |-> "response", status |-> status, cause |-> ""], FALSE)
    /\ Untouched

\* the exchange fails before the timeout
TransportFails(c, cause) ==
    /\ Waiting(c)
    /\ Finish(c, [kind |-> "error", status |-> 0, cause |-> cause], FALSE)
    /\ Untouched

\* the timeout of the transport expires: the request is dropped
TimeoutExpires(c) ==
    /\ calls[c].pc = "sent"
    /\ client.http_client.timeout # <<>>
    /\ calls[c].elapsed >= client.http_client.timeout[1]
    /\ Finish(c, [kind |-> "error", status |-> 0, cause |-> "timeout"], TRUE)
    /\ Untouched

ClientNext ==
    \/ \E c \in CallIds, r \in Recipients :
          SendEmail(c, r, "subject", "<p>html</p>", "text")
    \/ \E c \in CallIds : Tick(c)
    \/ \E c \in CallIds, status \in Statuses : Respond(c, status)
    \/ \E c \in CallIds, cause \in TransportFailures : TransportFails(c, cause)
    \/ \E c \in CallIds : TimeoutExpires(c)

----------------------------------------------------------------------------
(* routes/subscriptions.rs *)

MaxRequests == 2

\* the bytes the model's percent escapes stand for
HexByte(hi, lo) ==
    CASE hi = "2" /\ lo = "0" -> " "
      [] hi = "4" /\ lo = "0" -> "@"
      [] hi = "2" /\ lo = "F" -> "/"
      [] OTHER -> "?"

IsEscape(s) ==
    /\ Len(s) >= 3
    /\ s[1] = "%"
    /\ HexByte(s[2], s[3]) # "?"

\* application/x-www-form-urlencoded decoding of one value:
\* '+' is a space, %XX is the byte XX, anything else stands for itself
RECURSIVE PercentDecode(_)
PercentDecode(s) ==
    IF s = <<>> THEN <<>>
    ELSE IF s[1] = "+" THEN <<" ">> \o PercentDecode(Tail(s))
    ELSE IF IsEscape(s)
         THEN <<HexByte(s[2], s[3])>> \o PercentDecode(SubSeq(s, 4, Len(s)))
    ELSE <<s[1]>> \o PercentDecode(Tail(s))

\* the values of the pairs of the body whose key is key, decoded
FieldValues(body, key) ==
    LET at == {i \in DOMAIN body : body[i].key = key}
    IN  [i \in at |-> PercentDecode(body[i].value)]

\* a field under #[serde(default)]: absent reads as the empty string
FieldDefaulted(body, key) == Cardinality(DOMAIN FieldValues(body, key)) <= 1

\* a field the derived Deserialize of FormData requires: present exactly once
FieldRequired(body, key) == Cardinality(DOMAIN FieldValues(body, key)) = 1

FieldOf(body, key) ==
    LET vs == FieldValues(body, key)
    IN  IF DOMAIN vs = {} THEN <<>> ELSE vs[CHOOSE i \in DOMAIN vs : TRUE]

\* web::Form<FormData>: the extractor that runs before the handler
FormData(body) ==
    IF FieldRequired(body, "name") /\ FieldRequired(body, "email")
    THEN [ok |-> TRUE,
          form |-> [name |-> FieldOf(body, "name"),
                    email |-> FieldOf(body, "email")]]
    ELSE [ok |-> FALSE]

\* a handler that mails a confirmation to the new subscriber
SubscribeCallsConfirming(cs, form) ==
    [cs EXCEPT !["c1"] =
        [@ EXCEPT !.pc = "sent",
                  !.requests = Append(@, BuildRequest(client,
                                  [inner |-> form.email], "subject",
                                  "<p>html</p>", "text"))]]

\* the send_email calls after subscribe ran: its parameters are the form and
\* the pool, the registered EmailClient is not among them
SubscribeCalls(cs, form) == cs

RowSwapped(id, form, now) ==
    [id |-> id, email |-> form.name, name |-> form.email, subscribed_at |-> now]

\* the row of INSERT INTO subscriptions(id, email, name, subscribed_at)
Row(id, form, now) ==
    [id |-> id, email |-> form.email, name |-> form.name, subscribed_at |-> now]

\* Uuid::new_v4(): an identifier no row has yet
NewId == handled + 1

\* Utc::now(): the logical time of the request
UtcNow == handled + 1

RawValues ==
    { <<>>,
      <<"l", "e", "%", "2", "0", "g">>,
      <<"u", "%", "4", "0", "g", ".", "c">>,
      <<"+">>,
      <<"%", "2", "F">> }

Pairs == [key : {"name", "email", "zip"}, value : RawValues]

Bodies == UNION {[1..n -> Pairs] : n \in 0..2}

IntakeIdle ==
    /\ subscriptions = <<>>
    /\ before = <<>>
    /\ lastBody = <<>>
    /\ lastStatus = 0
    /\ handled = 0
    /\ okCount = 0

Init ==
    /\ IntakeIdle
    /\ NameIdle
    /\ EmailIdle
    /\ ClientIdle

Answer(body, status) ==
    /\ before' = subscriptions
    /\ lastBody' = body
    /\ lastStatus' = status
    /\ handled' = handled + 1
    /\ okCount' = IF status = 200 THEN okCount + 1 ELSE okCount

\* the extractor rejects the body: actix answers 400, subscribe is not called
SubscribeBadForm(body) ==
    /\ handled < MaxRequests
    /\ ~FormData(body).ok
    /\ Answer(body, 400)
    /\ UNCHANGED <<subscriptions, nameVars, emailVars, clientVars>>

\* subscribe, insert_subscriber returning Ok
SubscribeOk(body) ==
    /\ handled < MaxRequests
    /\ FormData(body).ok
    /\ subscriptions' =
          Append(subscriptions, Row(NewId, FormData(body).form, UtcNow))
    /\ Answer(body, 200)
    /\ calls' = SubscribeCalls(calls, FormData(body).form)
    /\ UNCHANGED <<nameVars, emailVars, config, client>>

\* subscribe, insert_subscriber returning Err: the statement wrote nothing
SubscribeDbError(body) ==
    /\ handled < MaxRequests
    /\ FormData(body).ok
    /\ Answer(body, 500)
    /\ calls' = SubscribeCalls(calls, FormData(body).form)
    /\ UNCHANGED <<subscriptions, nameVars, emailVars, config, client>>

Next ==
    \/ \E body \in Bodies : SubscribeBadForm(body)
    \/ \E body \in Bodies : SubscribeOk(body)
    \/ \E body \in Bodies : SubscribeDbError(body)

Spec == Init /\ [][Next]_vars

----------------------------------------------------------------------------
(* SubscriberName::parse on every input *)

NameInit ==
    /\ nameInput \in NameInputs
    /\ nameResult = Pending
    /\ namePc = "input"
    /\ EmailIdle
    /\ IntakeIdle
    /\ ClientIdle

ParseName ==
    /\ namePc = "input"
    /\ nameResult' = SubscriberName_parse(nameInput)
    /\ namePc' = "parsed"
    /\ UNCHANGED <<nameInput, emailVars, intakeVars, clientVars>>

NameNext == ParseName

SpecName == NameInit /\ [][NameNext]_vars

----------------------------------------------------------------------------
(* SubscriberEmail::parse on every input *)

EmailInit ==
    /\ emailInput \in EmailInputs
    /\ emailResult = Pending
    /\ emailPc = "input"
    /\ NameIdle
    /\ IntakeIdle
    /\ ClientIdle

ParseEmail ==
    /\ emailPc = "input"
    /\ emailResult' = SubscriberEmail_parse(emailInput)
    /\ emailPc' = "parsed"
    /\ UNCHANGED <<emailInput, nameVars, intakeVars, clientVars>>

EmailNext == ParseEmail

SpecEmail == EmailInit /\ [][EmailNext]_vars

----------------------------------------------------------------------------
(* send_email calls on one client, for every configuration *)

ClientInit ==
    /\ config \in Configs
    /\ client = Build(config)
    /\ calls = [c \in CallIds |-> IdleCall]
    /\ NameIdle
    /\ EmailIdle
    /\ IntakeIdle

SpecClient == ClientInit /\ [][ClientNext]_vars

----------------------------------------------------------------------------
(* Properties of SubscriberName::parse *)

NoForbidden(s) == \A i \in DOMAIN s : s[i] \notin forbidden_characters

AllPrintable(s) == \A i \in DOMAIN s : IsPrintable(s[i])

\* the error text starts with the raw input
CarriesInput(err, input) ==
    /\ Len(err) > Len(input)
    /\ SubSeq(err, 1, Len(input)) = input

\* C3 as stated: every input of printable, non-forbidden characters whose
\* trimmed length is 1..256 graphemes parses, and as_ref gives the input back.
C3_TrimmedLengthAccepted ==
    (/\ namePc = "parsed"
     /\ AllPrintable(nameInput)
     /\ NoForbidden(nameInput)
     /\ GraphemeCount(Trim(nameInput)) \in 1..NameMaxGraphemes)
        => (nameResult.ok /\ as_ref(nameResult.value) = nameInput)

\* C3 amended: every input of printable, non-forbidden characters that is not
\* blank after trimming and whose whole length, surrounding whitespace
\* included, is at most 256 graphemes parses, and as_ref gives back the
\* original, untrimmed input.
C3_WholeLengthAccepted ==
    (/\ namePc = "parsed"
     /\ AllPrintable(nameInput)
     /\ NoForbidden(nameInput)
     /\ Trim(nameInput) # <<>>
     /\ GraphemeCount(nameInput) <= NameMaxGraphemes)
        => (nameResult.ok /\ as_ref(nameResult.value) = nameInput)

\* a name with surrounding whitespace was accepted
C3_Witness ==
    /\ namePc = "parsed"
    /\ nameResult.ok
    /\ AllPrintable(nameInput)
    /\ Trim(nameInput) # nameInput
    /\ GraphemeCount(nameInput) = NameMaxGraphemes

\* C4: parse fails on every input that is blank after trimming, longer than
\* 256 graphemes or holding a forbidden character, and the error carries the
\* raw input; a non-blank name of exactly 256 graphemes without forbidden
\* characters is accepted and one of 257 graphemes is rejected.
C4_InvalidNamesRejected ==
    namePc = "parsed" =>
        /\ (\/ Trim(nameInput) = <<>>
            \/ GraphemeCount(nameInput) > NameMaxGraphemes
            \/ ~NoForbidden(nameInput))
              => (~nameResult.ok /\ CarriesInput(nameResult.err, nameInput))
        /\ (/\ GraphemeCount(nameInput) = NameMaxGraphemes
            /\ NoForbidden(nameInput)
            /\ Trim(nameInput) # <<>>) => nameResult.ok
        /\ GraphemeCount(nameInput) = NameMaxGraphemes + 1 => ~nameResult.ok

\* a name of 257 graphemes, none forbidden, not blank, was rejected
C4_Witness ==
    /\ namePc = "parsed"
    /\ GraphemeCount(nameInput) = NameMaxGraphemes + 1
    /\ NoForbidden(nameInput)
    /\ Trim(nameInput) # <<>>
    /\ ~nameResult.ok

----------------------------------------------------------------------------
(* Properties of SubscriberEmail::parse *)

\* C9: parse succeeds exactly when the validator accepts the input; inputs
\* without '@', with nothing before it or nothing after it, and the empty
\* string fail; a success exposes the input unchanged through as_ref, a
\* failure carries the input, and nothing else changes.
C9_EmailParse ==
    emailPc = "parsed" =>
        /\ emailResult.ok <=> validate_email(emailInput)
        /\ (\/ emailInput = <<>>
            \/ \A i \in DOMAIN emailInput : emailInput[i] # "@"
            \/ emailInput[1] = "@"
            \/ emailInput[Len(emailInput)] = "@") => ~emailResult.ok
        /\ emailResult.ok => as_ref(emailResult.value) = emailInput
        /\ ~emailResult.ok => CarriesInput(emailResult.err, emailInput)
        /\ NameIdle

\* a well-formed address was accepted
C9_Witness ==
    /\ emailPc = "parsed"
    /\ emailResult.ok
    /\ emailInput = <<"a", "@", "a", ".", "a">>

----------------------------------------------------------------------------
(* Properties of POST /subscriptions *)

HasField(body, key) == \E i \in DOMAIN body : body[i].key = key

\* the last request carried each of name and email once
BothPresent ==
    /\ lastStatus # 0
    /\ Cardinality({i \in DOMAIN lastBody : lastBody[i].key = "name"}) = 1
    /\ Cardinality({i \in DOMAIN lastBody : lastBody[i].key = "email"}) = 1

SubmittedName == FieldOf(lastBody, "name")

SubmittedEmail == FieldOf(lastBody, "email")

NothingPersisted == subscriptions = before

\* C1: a request with both fields present of which at least one fails domain
\* validation is answered 400 and persists nothing.
C1_InvalidFieldsRejected ==
    (/\ BothPresent
     /\ \/ ~SubscriberName_parse(SubmittedName).ok
        \/ ~SubscriberEmail_parse(SubmittedEmail).ok)
        => (lastStatus = 400 /\ NothingPersisted)

\* the body of subscribe_returns_200_for_valid_form_data, shortened
ValidBody ==
    << [key |-> "name", value |-> <<"l", "e", "%", "2", "0", "g">>],
       [key |-> "email", value |-> <<"u", "%", "4", "0", "g", ".", "c">>] >>

\* C2: a request with valid name and email is answered 200 with exactly one
\* new row holding the decoded name and email, or 500 with no new row; the
\* rows are one per request answered 200, and earlier rows stay as they were.
C2_ValidIntakePersistsOnce ==
    /\ Len(subscriptions) = okCount
    /\ Len(before) <= Len(subscriptions)
    /\ SubSeq(subscriptions, 1, Len(before)) = before
    /\ (/\ BothPresent
        /\ SubscriberName_parse(SubmittedName).ok
        /\ SubscriberEmail_parse(SubmittedEmail).ok)
          => /\ lastStatus \in {200, 500}
             /\ lastStatus = 500 => NothingPersisted
             /\ lastStatus = 200 =>
                   /\ Len(subscriptions) = Len(before) + 1
                   /\ subscriptions[Len(subscriptions)].name = SubmittedName
                   /\ subscriptions[Len(subscriptions)].email = SubmittedEmail
                   /\ \A i \in DOMAIN before :
                         before[i].id # subscriptions[Len(subscriptions)].id
    /\ (lastBody = ValidBody /\ lastStatus = 200)
          => /\ subscriptions[Len(subscriptions)].name = <<"l", "e", " ", "g">>
             /\ subscriptions[Len(subscriptions)].email = <<"u", "@", "g", ".", "c">>

\* a second valid request was stored after an earlier row
C2_Witness ==
    /\ lastBody = ValidBody
    /\ lastStatus = 200
    /\ Len(before) = 1
    /\ Len(subscriptions) = 2

\* C8: a request whose body lacks name, email or both is answered 400 and
\* persists nothing.
C8_MissingFieldRejected ==
    (/\ lastStatus # 0
     /\ ~HasField(lastBody, "name") \/ ~HasField(lastBody, "email"))
        => (lastStatus = 400 /\ NothingPersisted)

\* a body with a name and no email was rejected after a row was stored
C8_Witness ==
    /\ lastStatus = 400
    /\ HasField(lastBody, "name")
    /\ ~HasField(lastBody, "email")
    /\ Len(subscriptions) = 1
    /\ NothingPersisted

----------------------------------------------------------------------------
(* Properties of EmailClient::send_email *)

\* C5: a call the provider has not completed within the timeout given to
\* EmailClient::new ends, at the expiry and not later, with the timeout error,
\* its request cancelled and sent once; the transport keeps that timeout.
C5_TimeoutFailsTheCall ==
    /\ client.http_client.timeout = <<config.timeout>>
    /\ \A c \in CallIds :
          /\ calls[c].elapsed <= config.timeout
          /\ (calls[c].pc = "done" /\ calls[c].elapsed >= config.timeout)
                => /\ calls[c].result = Err("timeout")
                   /\ calls[c].cancelled
                   /\ Len(calls[c].requests) = 1
          /\ (calls[c].pc = "done" /\ calls[c].elapsed < config.timeout)
                => ~calls[c].cancelled

\* a call timed out at the expiry of a timeout of more than one tick
C5_Witness ==
    \E c \in CallIds :
        /\ calls[c].pc = "done"
        /\ config.timeout > 1
        /\ calls[c].elapsed = config.timeout
        /\ calls[c].result = Err("timeout")

\* C6: a finished call is a success exactly when the provider answered within
\* the timeout, whatever the status; every transport failure, the timeout
\* included, is returned as that error.
C6_SuccessIffExchangeCompleted ==
    \A c \in CallIds :
        calls[c].pc = "done" =>
            /\ calls[c].result.kind = "Ok" <=> calls[c].transport.kind = "response"
            /\ calls[c].transport.kind = "error"
                  => calls[c].result = Err(calls[c].transport.cause)
            /\ calls[c].result.kind \in {"Ok", "Err"}

\* a call answered 500 by the provider returned Ok
C6_Witness ==
    \E c \in CallIds :
        /\ calls[c].pc = "done"
        /\ calls[c].transport.status = 500
        /\ calls[c].result = Ok

\* the URL written {base_url}/email, a slash ending base_url written once
BaseUrlSlashEmail ==
    LET path == config.base_url.path
        stem == IF path # <<>> /\ path[Len(path)] = ""
                THEN SubSeq(path, 1, Len(path) - 1) ELSE path
    IN  UrlParse([origin |-> config.base_url.origin,
                  path |-> stem \o <<"email">>])

\* C7: every request is a POST to {base_url}/email with the token and JSON
\* content-type headers and a body of exactly From, To, Subject, HtmlBody and
\* TextBody holding the sender and the arguments of the call.
C7_RequestShape ==
    \A c \in CallIds : \A i \in DOMAIN calls[c].requests :
        LET r == calls[c].requests[i]
        IN  /\ r.method = "POST"
            /\ r.url = BaseUrlSlashEmail
            /\ <<"X-Postmark-Server-Token", config.authorization_token.inner>>
                  \in r.headers
            /\ <<"Content-Type", "application/json">> \in r.headers
            /\ {kv[1] : kv \in r.body} =
                  {"From", "To", "Subject", "HtmlBody", "TextBody"}
            /\ Cardinality(r.body) = 5
            /\ <<"From", config.sender.inner>> \in r.body
            /\ \E to \in Recipients : <<"To", to.inner>> \in r.body
            /\ <<"Subject", "subject">> \in r.body
            /\ <<"HtmlBody", "<p>html</p>">> \in r.body
            /\ <<"TextBody", "text">> \in r.body

\* C10: every call hands exactly one request to the transport, whatever its
\* outcome and whatever the other calls do; the client stays as constructed;
\* the result of a call is decided by its own exchange.
C10_OneAttemptSharedClient ==
    /\ client.base_url = config.base_url
    /\ client.sender = config.sender
    /\ client.authorization_token = config.authorization_token
    /\ client.http_client.timeout = <<config.timeout>>
    /\ \A c \in CallIds :
          /\ calls[c].pc = "idle" => Len(calls[c].requests) = 0
          /\ calls[c].pc # "idle" => Len(calls[c].requests) = 1
          /\ calls[c].pc = "done" =>
                calls[c].result =
                   IF calls[c].transport.kind = "response" THEN Ok
                   ELSE Err(calls[c].transport.cause)

\* one call failed while the other, sent, was still waiting; then both ended
C10_Witness ==
    /\ calls["c1"].pc = "done"
    /\ calls["c1"].result = Err("connect")
    /\ calls["c2"].pc = "done"
    /\ calls["c2"].result = Ok
    /\ calls["c2"].elapsed > calls["c1"].elapsed

----------------------------------------------------------------------------
(* The intake flow and the EmailClient *)

\* C11: whatever a POST /subscriptions request is answered (200, 400 or 500),
\* no send_email call is started and no request reaches the provider, while
\* the client built at startup stays registered with the service.
C11_IntakeSendsNoEmail ==
    /\ client = Build(config)
    /\ \A c \in CallIds :
          /\ calls[c].pc = "idle"
          /\ calls[c].requests = <<>>

\* a valid request was stored and answered 200 after an earlier request,
\* and no call was made
C11_Witness ==
    /\ lastBody = ValidBody
    /\ lastStatus = 200
    /\ handled = 2
    /\ Len(subscriptions) = okCount
    /\ \A c \in CallIds : calls[c] = IdleCall

====
